---- MODULE Spec2Model ----
(***************************************************************************)
(* The eigenvalue prompt (ev-prompt.c): command registry, tokenising,      *)
(* completion, dispatch and history, driven by the GLib main loop watching *)
(* standard input, together with the parts of ev-application.c, main.c and *)
(* ev-matrix.c that the prompt's commands reach.                           *)
(*                                                                         *)
(* C strings are sequences of one-character strings.  Every callback of    *)
(* the main loop is one action.  The variables term, invoked, called,      *)
(* completions, ret, resets and pre describe what the latest callback did. *)
(***************************************************************************)
EXTENDS Integers, Sequences, FiniteSets, TLC

VARIABLES
  ready,        \* what the main loop will dispatch, in order: the keys typed at
                \* the terminal, the signals, the answers of the matrix library
  commands,     \* static GPtrArray *commands: the registry, in order
  line,         \* el: the line buffer of the editing widget
  cursor,       \* el: the cursor, 0 .. Len(line)
  tok,          \* tok: the tokenizer's state
  wmax,         \* tok: the size of the tokenizer's word space
  hist,         \* hist: the history list, most recent entry first
  eventid,      \* hist: number given to the latest history entry
  holds,        \* GApplication use count (g_application_hold / _release)
  releases,     \* how often ev_quit has called g_application_release
  status,       \* "running", "stopped", "aborted" (g_assert), "crashed"
  client,       \* ev-matrix.c: static CmClient *client ("NULL" or "set")
  joined_rooms, \* ev-matrix.c: static GListModel *joined_rooms
  pushers,      \* ev-matrix.c: static GPtrArray *pushers ("NULL" or a length)
  opened,       \* whether cm_matrix_open_async has called back
  term,         \* what the latest callback printed with g_print, in order
  invoked,      \* the command handlers the latest callback invoked
  called,       \* the completers the latest callback invoked
  completions,  \* the candidates the latest completion handed to rendering
  ret,          \* what complete() returned to the widget in the latest callback
  resets,       \* how often the latest callback ran reset()
  pre,          \* the key read, the line, cursor and tokenizer before the
                \* latest callback, and what the allocator did in it (mem)
  signals,      \* the unix signal sources still attached to the main loop
  late,         \* the sources dispatched since the use count reached zero
  histfile,     \* the history file in the cache directory: NULL if absent,
                \* else its characters after the header line
  loaded,       \* whether ev_prompt_init ran H_LOAD at the latest start
  builder,      \* an EvFormatBuilder: its indent, keys and values
  built         \* the latest call on the builder, what ev_format_builder_end
                \* returned, and whether a g_assert of the builder failed

vars == <<ready, commands, line, cursor, tok, wmax, hist, eventid, holds,
          releases, status,
          client, joined_rooms, pushers, opened, term, invoked, called,
          completions, ret, resets, pre, signals, late, histfile, loaded,
          builder, built>>

\* the state of the session, without the format builder
session == <<ready, commands, line, cursor, tok, wmax, hist, eventid, holds,
             releases, status,
             client, joined_rooms, pushers, opened, term, invoked, called,
             completions, ret, resets, pre, signals, late, histfile, loaded>>

(***************************************************************************)
(* Bounds of the model.                                                    *)
(***************************************************************************)
\* how many times ^B is pressed before Tab or Enter in an editing script
MaxLeft == 2
\* how many lines a session script submits
MaxLines == 2
\* how many entries a format builder is given at most
MaxEntries == 2

\* how many pushers the server reports at most
MaxPushers == 1

(***************************************************************************)
(* Characters and keys.                                                    *)
(***************************************************************************)
NUL == "NUL"
NL == "\n"
TAB == "\t"
LEFT == "^B"
NULL == "NULL"

Min(a, b) == IF a < b THEN a ELSE b

\* the command names of the two command tables
n_help == <<"h", "e", "l", "p">>
n_history == <<"h", "i", "s", "t", "o", "r", "y">>
n_quit == <<"q", "u", "i", "t">>
n_client_details == <<"c", "l", "i", "e", "n", "t", "-", "d", "e", "t", "a", "i", "l", "s">>
n_rooms == <<"r", "o", "o", "m", "s">>
n_room_details == <<"r", "o", "o", "m", "-", "d", "e", "t", "a", "i", "l", "s">>
n_room_events == <<"r", "o", "o", "m", "-", "e", "v", "e", "n", "t", "s">>
n_room_load_past_events == <<"r", "o", "o", "m", "-", "l", "o", "a", "d", "-", "p", "a", "s", "t", "-", "e", "v", "e", "n", "t", "s">>
n_room_get_event == <<"r", "o", "o", "m", "-", "g", "e", "t", "-", "e", "v", "e", "n", "t">>
n_get_pushers == <<"g", "e", "t", "-", "p", "u", "s", "h", "e", "r", "s">>
n_remove_pusher == <<"r", "e", "m", "o", "v", "e", "-", "p", "u", "s", "h", "e", "r">>

(***************************************************************************)
(* The command tables.                                                     *)
(***************************************************************************)
help_opts ==
  << [name |-> "command", optional |-> TRUE,
      completer |-> "help_command_opt_get_completion"] >>

prompt_commands ==
  << [name |-> n_help, func |-> "ev_prompt_print_help", opts |-> help_opts],
     [name |-> n_history, func |-> "ev_prompt_print_history", opts |-> <<>>],
     [name |-> n_quit, func |-> "ev_prompt_quit", opts |-> <<>>] >>

matrix_room_events_opts ==
  << [name |-> "room-id", optional |-> FALSE,
      completer |-> "matrix_command_opt_get_room_completion"] >>

matrix_room_load_past_events_opts ==
  << [name |-> "room-id", optional |-> FALSE,
      completer |-> "matrix_command_opt_get_room_completion"] >>

matrix_room_details_opts ==
  << [name |-> "room-id", optional |-> FALSE,
      completer |-> "matrix_command_opt_get_room_completion"] >>

matrix_room_get_event_opts ==
  << [name |-> "room-id", optional |-> FALSE,
      completer |-> "matrix_command_opt_get_room_completion"],
     [name |-> "event-id", optional |-> FALSE, completer |-> NULL] >>

matrix_get_remove_pusher_opts ==
  << [name |-> "number", optional |-> FALSE, completer |-> NULL] >>

matrix_commands ==
  << [name |-> n_client_details, func |-> "ev_matrix_client_details", opts |-> <<>>],
     [name |-> n_rooms, func |-> "ev_matrix_list_rooms", opts |-> <<>>],
     [name |-> n_room_details, func |-> "ev_matrix_room_details",
      opts |-> matrix_room_details_opts],
     [name |-> n_room_events, func |-> "ev_matrix_room_events",
      opts |-> matrix_room_events_opts],
     [name |-> n_room_load_past_events, func |-> "ev_matrix_room_load_past_events",
      opts |-> matrix_room_load_past_events_opts],
     [name |-> n_room_get_event, func |-> "ev_matrix_room_get_event",
      opts |-> matrix_room_get_event_opts],
     [name |-> n_get_pushers, func |-> "ev_matrix_get_pushers", opts |-> <<>>],
     [name |-> n_remove_pusher, func |-> "ev_matrix_remove_pusher",
      opts |-> matrix_get_remove_pusher_opts] >>

\* A command without options has opts = NULL; ev_cmd_get_opt and the help
\* text treat that as no option at all, which is the empty sequence here.

\* ev_prompt_add_commands and ev_matrix_add_commands: g_ptr_array_add of
\* every command of the batch
ev_prompt_add_commands(commands_) == commands_ \o prompt_commands

ev_matrix_add_commands(commands_) == commands_ \o matrix_commands

\* ev_application_startup: the registry with and without EV_DEBUG=no-matrix
ev_application_startup(no_matrix) ==
  IF no_matrix THEN ev_prompt_add_commands(<<>>)
  ELSE ev_prompt_add_commands(ev_matrix_add_commands(<<>>))

(***************************************************************************)
(* The tokenizer (libedit's tok_line, tok_reset), as ev-prompt.c calls it. *)
(* A state holds the finished words (argv), the word being built, the      *)
(* quote mode and the TOK_KEEP flag.  The typed alphabet has no backslash, *)
(* so the modes Q_one and Q_doubleone and the flag TOK_EAT never arise.    *)
(***************************************************************************)
IFS == {" ", TAB}

\* WINCR: the characters the word space holds at first and grows by
WINCR == 20

\* what tok_realloc does when the word space has to grow
Realloc == {"ok", "fails"}


tok_reset == [argv |-> <<>>, word |-> <<>>, quote |-> "Q_none", keep |-> FALSE]

tok_finish(t) ==
  IF t.keep \/ t.word # <<>>
    THEN [t EXCEPT !.argv = Append(@, t.word), !.word = <<>>, !.keep = FALSE]
    ELSE [t EXCEPT !.keep = FALSE]

\* tok_line_outok: the parse succeeded, the outputs are assigned
tok_line_outok(t, cc, co) ==
  LET f == tok_finish(t)
  IN [rv |-> 0, tok |-> f, set |-> TRUE, ac |-> Len(f.argv), av |-> f.argv,
      cc |-> IF cc = -1 /\ co = -1 THEN Len(t.argv) ELSE cc,
      co |-> IF cc = -1 /\ co = -1 THEN Len(t.word) ELSE co]

\* an early return: the caller's ac, av, cc and co are left as they were
tok_line_fail(t, rv) ==
  [rv |-> rv, tok |-> t, set |-> FALSE, ac |-> 0, av |-> <<>>, cc |-> 0, co |-> 0]

\* tok->wptr - tok->wspace: the characters of the words in the word space,
\* each finished word with its NUL
RECURSIVE tok_words(_, _)
tok_words(argv, n) ==
  IF n = 0 THEN 0 ELSE Len(argv[n]) + 1 + tok_words(argv, n - 1)

tok_wptr(t) == tok_words(t.argv, Len(t.argv)) + Len(t.word)

\* a quote character q read in state t
tok_quote(t, q) ==
  LET own == IF q = "'" THEN "Q_single" ELSE "Q_double"
  IN CASE t.quote = "Q_none" -> [t EXCEPT !.keep = TRUE, !.quote = own]
       [] t.quote = own -> [t EXCEPT !.keep = TRUE, !.quote = "Q_none"]
       [] OTHER -> [t EXCEPT !.keep = TRUE, !.word = Append(@, q)]

\* the loop of tok_line from position p of buf: wm is the size of the word
\* space; after every character that does not end the parse the word space
\* grows if fewer than four characters are free, and tok_line returns -1 if
\* tok_realloc fails (mem)
RECURSIVE tok_scan(_, _, _, _, _, _, _, _)
tok_scan(t, buf, cur, p, cc, co, wm, mem) ==
  LET ch == IF p > Len(buf) THEN NUL ELSE buf[p]
      at == p <= Len(buf) /\ p = cur + 1
      cc1 == IF at THEN Len(t.argv) ELSE cc
      co1 == IF at THEN Len(t.word) ELSE co
      go(t2) ==
        IF tok_wptr(t2) < wm - 4
          THEN tok_scan(t2, buf, cur, p + 1, cc1, co1, wm, mem)
        ELSE IF mem = "fails"
          THEN tok_line_fail(t2, -1) @@ [wmax |-> wm]
        ELSE tok_scan(t2, buf, cur, p + 1, cc1, co1, wm + WINCR, mem)
  IN CASE ch \in {"'", "\""} -> go(tok_quote(t, ch))
       [] ch = NL ->
            IF t.quote = "Q_none"
              THEN tok_line_outok(t, cc1, co1) @@ [wmax |-> wm]
            ELSE go([t EXCEPT !.word = Append(@, ch)])
       [] ch = NUL ->
            CASE t.quote = "Q_none" ->
                   tok_line_outok(t, cc1, co1) @@ [wmax |-> wm]
              [] t.quote = "Q_single" -> tok_line_fail(t, 1) @@ [wmax |-> wm]
              [] OTHER -> tok_line_fail(t, 2) @@ [wmax |-> wm]
       [] OTHER ->
            IF t.quote = "Q_none" /\ ch \in IFS THEN go(tok_finish(t))
            ELSE go([t EXCEPT !.word = Append(@, ch)])

\* tok_line (tok, li, &ac, &av, &cc, &co) with li = (buf, cur), on a word
\* space of size wm
tok_line(t, buf, cur, wm, mem) == tok_scan(t, buf, cur, 1, -1, -1, wm, mem)

(***************************************************************************)
(* Values that may be NULL: a GStrv, a GString, a GListModel.              *)
(***************************************************************************)
Null == [null |-> TRUE, v |-> <<>>]
Val(s) == [null |-> FALSE, v |-> s]

\* the first Min(n, strlen + 1) characters strncmp reads of a C string
cstr(s, n) == SubSeq(Append(s, NUL), 1, Min(n, Len(s) + 1))

\* strncmp (a, b, n) == 0
strncmp0(a, b, n) == cstr(a, n) = cstr(b, n)

\* a signed int compared with a size_t: the int is converted to unsigned
gt_size_t(i, n) == IF i < 0 THEN TRUE ELSE i > n

\* ev_cmd (i)->name for every i, in the order of the registry
ev_cmd_names(cmds) == [i \in 1..Len(cmds) |-> cmds[i].name]

\* g_strdup_printf ("/%s", name) for each of the names
slash_names(names) == [i \in 1..Len(names) |-> <<"/">> \o names[i]]

(***************************************************************************)
(* The registry.                                                           *)
(***************************************************************************)
\* ev_cmds_get: the index of the first command called name, 0 for none
ev_cmds_get(cmds, name) ==
  IF \E i \in 1..Len(cmds) : cmds[i].name = name
    THEN CHOOSE i \in 1..Len(cmds) :
           /\ cmds[i].name = name
           /\ \A j \in 1..(i - 1) : cmds[j].name # name
    ELSE 0

\* ev_cmd_get_opt counting the options from 1: option num - 1, the first
\* option for num = 0
ev_cmd_get_opt_from1(cmds, name, num) ==
  LET c == ev_cmds_get(cmds, name)
      k == IF num = 0 THEN 1 ELSE num
  IN IF c = 0 THEN <<>>
     ELSE IF k \in 1..Len(cmds[c].opts) THEN <<cmds[c].opts[k]>>
     ELSE <<>>

\* ev_cmd_get_opt: the option num (from 0) of the command called name, as
\* a sequence of at most one option
ev_cmd_get_opt(cmds, name, num) ==
  LET c == ev_cmds_get(cmds, name)
  IN IF c = 0 THEN <<>>
     ELSE IF num + 1 \in 1..Len(cmds[c].opts) THEN <<cmds[c].opts[num + 1]>>
     ELSE <<>>

(***************************************************************************)
(* Completion.                                                             *)
(***************************************************************************)
\* complete_command giving the bare names as candidates
complete_command_bare(cmds, word, pos) ==
  IF word = <<>> \/ word[1] # "/" THEN Null
  ELSE LET w == Tail(word)
           p == pos - 1
           hit == SelectSeq(ev_cmd_names(cmds),
                    LAMBDA n : ~gt_size_t(p, Len(n)) /\ strncmp0(n, w, p))
       IN Val(hit)

\* complete_command without the pos-- that skips the '/'
complete_command_nodec(cmds, word, pos) ==
  IF word = <<>> \/ word[1] # "/" THEN Null
  ELSE LET w == Tail(word)
           hit == SelectSeq(ev_cmd_names(cmds),
                    LAMBDA n : ~gt_size_t(pos, Len(n)) /\ strncmp0(n, w, pos))
       IN Val(slash_names(hit))

complete_command(cmds, word, pos) ==
  IF word = <<>> \/ word[1] # "/" THEN Null
  ELSE LET w == Tail(word)
           p == pos - 1
           hit == SelectSeq(ev_cmd_names(cmds),
                    LAMBDA n : ~gt_size_t(p, Len(n)) /\ strncmp0(n, w, p))
       IN Val(slash_names(hit))

help_command_opt_get_completion(cmds, word, pos) ==
  Val(SelectSeq(ev_cmd_names(cmds), LAMBDA n : strncmp0(n, word, pos)))

matrix_command_opt_get_room_completion(rooms, word, pos) ==
  IF rooms.null THEN Null
  ELSE Val(SelectSeq(rooms.v, LAMBDA id : strncmp0(id, word, pos)))

\* (opt->completer) (match, co)
call_completer(completer, cmds, rooms, word, pos) ==
  IF completer = "help_command_opt_get_completion"
    THEN help_command_opt_get_completion(cmds, word, pos)
    ELSE matrix_command_opt_get_room_completion(rooms, word, pos)

\* el_insertstr: -1 and no change for the empty string
el_insertstr(e, s) ==
  IF s = <<>> THEN [rv |-> -1, line |-> e.line, cursor |-> e.cursor]
  ELSE [rv |-> 0,
        line |-> SubSeq(e.line, 1, e.cursor) \o s
                 \o SubSeq(e.line, e.cursor + 1, Len(e.line)),
        cursor |-> e.cursor + Len(s)]

\* &completions[0][pos]: the tail of the candidate from offset pos; past
\* the terminating NUL the read leaves the string and yields what lies there
str_from(c, pos, garbage) ==
  IF pos <= Len(c) THEN SubSeq(c, pos + 1, Len(c)) ELSE garbage

\* print_or_insert_completions printing several candidates last to first
print_or_insert_completions_rev(e, c, pos, garbage) ==
  IF ~c.null /\ Len(c.v) > 0
    THEN IF Len(c.v) > 1
           THEN [ret |-> "CC_REDISPLAY", line |-> e.line, cursor |-> e.cursor,
                 term |-> <<<<"\n">>>>
                          \o [i \in 1..Len(c.v) |-> <<"%s ", c.v[Len(c.v) + 1 - i]>>]
                          \o <<<<"\n">>>>]
           ELSE LET i1 == el_insertstr(e, str_from(c.v[1], pos, garbage))
                    i2 == el_insertstr(i1, <<" ">>)
                IN IF i1.rv = -1
                     THEN [ret |-> "CC_ERROR", line |-> e.line,
                           cursor |-> e.cursor, term |-> <<>>]
                     ELSE [ret |-> "CC_REFRESH", line |-> i2.line,
                           cursor |-> i2.cursor, term |-> <<>>]
    ELSE [ret |-> "CC_ERROR", line |-> e.line, cursor |-> e.cursor, term |-> <<>>]

\* print_or_insert_completions printing the line break before it looks at
\* the candidates
print_or_insert_completions_nl(e, c, pos, garbage) ==
  IF ~c.null /\ Len(c.v) > 1
    THEN [ret |-> "CC_REDISPLAY", line |-> e.line, cursor |-> e.cursor,
          term |-> <<<<"\n">>>> \o [i \in 1..Len(c.v) |-> <<"%s ", c.v[i]>>]
                   \o <<<<"\n">>>>]
  ELSE IF ~c.null /\ Len(c.v) = 1
    THEN LET i1 == el_insertstr(e, str_from(c.v[1], pos, garbage))
             i2 == el_insertstr(i1, <<" ">>)
         IN IF i1.rv = -1
              THEN [ret |-> "CC_ERROR", line |-> e.line,
                    cursor |-> e.cursor, term |-> <<>>]
              ELSE [ret |-> "CC_REFRESH", line |-> i2.line,
                    cursor |-> i2.cursor, term |-> <<>>]
  ELSE [ret |-> "CC_ERROR", line |-> e.line, cursor |-> e.cursor,
        term |-> <<<<"\n">>>>]

\* print_or_insert_completions on the widget e = [line, cursor]
print_or_insert_completions(e, c, pos, garbage) ==
  IF ~c.null /\ Len(c.v) > 0
    THEN IF Len(c.v) > 1
           THEN [ret |-> "CC_REDISPLAY", line |-> e.line, cursor |-> e.cursor,
                 term |-> <<<<"\n">>>> \o [i \in 1..Len(c.v) |-> <<"%s ", c.v[i]>>]
                          \o <<<<"\n">>>>]
           ELSE LET i1 == el_insertstr(e, str_from(c.v[1], pos, garbage))
                    i2 == el_insertstr(i1, <<" ">>)
                IN IF i1.rv = -1
                     THEN [ret |-> "CC_ERROR", line |-> e.line,
                           cursor |-> e.cursor, term |-> <<>>]
                     ELSE [ret |-> "CC_REFRESH", line |-> i2.line,
                           cursor |-> i2.cursor, term |-> <<>>]
    ELSE [ret |-> "CC_ERROR", line |-> e.line, cursor |-> e.cursor, term |-> <<>>]

\* what complete() leaves when it renders nothing
complete_out(e) ==
  [ret |-> "CC_ERROR", line |-> e.line, cursor |-> e.cursor, term |-> <<>>,
   completions |-> <<>>, called |-> <<>>, tok |-> tok_reset]

\* the end of complete(): the candidates c are rendered and the tokenizer
\* is reset; info is the completer call that produced them
complete_with(e, c, pos, garbage, info) ==
  print_or_insert_completions(e, c, pos, garbage)
  @@ [completions |-> <<c>>, called |-> info, tok |-> tok_reset]

\* complete() at an argument: opt is ev_cmd_get_opt (name, cc - 1)
complete_option(e, opt, name, num, match, co, cmds, rooms, garbage) ==
  IF opt = <<>> \/ opt[1].completer = NULL
    THEN complete_out(e)
    ELSE complete_with(e,
           call_completer(opt[1].completer, cmds, rooms, match, co),
           co, garbage,
           <<[completer |-> opt[1].completer, cmd |-> ev_cmds_get(cmds, name),
              num |-> num, word |-> match, len |-> co]>>)

\* complete() after tok_line returned r
complete_tokens(e, r, cmds, rooms, garbage) ==
  LET match == IF r.cc >= r.ac THEN <<>> ELSE r.av[r.cc + 1]
      name == IF r.av[1] = <<>> THEN garbage ELSE Tail(r.av[1])
  IN (IF r.rv < 0
        THEN [complete_out(e) EXCEPT !.tok = r.tok]
      ELSE IF r.ac < 2 /\ r.cc = 0
        THEN complete_with(e, complete_command(cmds, match, r.co), r.co,
                           garbage, <<>>)
      ELSE IF r.ac = 0 \/ r.cc = 0
        THEN complete_out(e)
      ELSE complete_option(e, ev_cmd_get_opt(cmds, name, r.cc - 1), name,
                           r.cc - 1, match, r.co, cmds, rooms, garbage))
     @@ [wmax |-> r.wmax]

\* complete (el, ch): the Tab key on the widget e with tokenizer state t;
\* garbage is what a read past the end of a string finds, wm and mem the
\* word space and what its allocator does
complete(e, t, cmds, rooms, garbage, wm, mem) ==
  complete_tokens(e, tok_line(t, e.line, e.cursor, wm, mem), cmds, rooms,
                  garbage)

(***************************************************************************)
(* The command handlers.  A handler returns [out, err, quits, abort,       *)
(* pushers]: the GString it returns (Null for NULL), the message of the    *)
(* GError it set (NULL for none), how often it called ev_quit, whether a   *)
(* g_assert failed in it, and the pushers array it leaves.  A GString is   *)
(* the sequence of the pieces appended to it, empty for "".  srv is what   *)
(* the server answers to the handler's synchronous request: [reply, n].    *)
(***************************************************************************)
handler_ret(out, err, S) ==
  [out |-> out, err |-> err, quits |-> 0, abort |-> FALSE, pushers |-> S.pushers]

handler_abort(S) ==
  [out |-> Null, err |-> NULL, quits |-> 0, abort |-> TRUE, pushers |-> S.pushers]

\* history (hist, &ev, H_LAST) then H_PREV: from the oldest entry to the newest
ev_prompt_print_history(args, S) ==
  handler_ret(Val([i \in 1..Len(S.hist) |->
                     <<"%4d %s", S.hist[Len(S.hist) + 1 - i].num,
                       S.hist[Len(S.hist) + 1 - i].str>>]),
              NULL, S)

\* ev_prompt_quit without its call of ev_quit
ev_prompt_quit_stays(args, S) ==
  [out |-> Val(<<>>), err |-> NULL, quits |-> 0, abort |-> FALSE,
   pushers |-> S.pushers]

ev_prompt_quit(args, S) ==
  [out |-> Val(<<>>), err |-> NULL, quits |-> 1, abort |-> FALSE,
   pushers |-> S.pushers]

ev_prompt_print_help(args, S) ==
  IF Len(args) > 0
    THEN LET c == ev_cmds_get(S.commands, args[1])
         IN IF c = 0
              THEN handler_ret(Val(<<<<"Unknown command %s\n", args[1]>>>>), NULL, S)
              ELSE handler_ret(
                     Val(<<<<"  %s - %s\n\n", args[1]>>, <<"  Usage:\n">>,
                           <<"    /%s", args[1]>>>>
                         \o [i \in 1..Len(S.commands[c].opts) |->
                               <<" %s", S.commands[c].opts[i].name,
                                 S.commands[c].opts[i].optional>>]
                         \o (IF S.commands[c].opts = <<>> THEN <<>> ELSE <<<<"\n">>>>)
                         \o [i \in 1..Len(S.commands[c].opts) |->
                               <<"%*s : %s\n", S.commands[c].opts[i].name>>]
                         \o <<<<"\n">>>>),
                     NULL, S)
    ELSE handler_ret(Val([i \in 1..Len(S.commands) |->
                            <<"%s: %s\n", S.commands[i].name>>]),
                     NULL, S)

ev_matrix_client_details(args, S) ==
  IF S.client = NULL THEN handler_ret(Null, NULL, S)
  ELSE handler_ret(Val(<<<<"User">>, <<"Home server">>, <<"Device ID">>,
                         <<"Logged in">>>>), NULL, S)

ev_matrix_list_rooms(args, S) ==
  IF S.joined_rooms.null \/ Len(S.joined_rooms.v) = 0
    THEN handler_ret(Val(<<<<"No joined rooms\n">>>>), NULL, S)
    ELSE handler_ret(Val([i \in 1..Len(S.joined_rooms.v) |->
                            <<"  Room name: %s, room id: %s\n", S.joined_rooms.v[i]>>]),
                     NULL, S)

\* get_joined_room_by_id: whether a joined room has this id
get_joined_room_by_id(S, room_id) ==
  \E i \in 1..Len(S.joined_rooms.v) : S.joined_rooms.v[i] = room_id

\* the start shared by the room commands: the assertion, the argument
\* count, the room lookup; what the handler returns there, as a sequence of
\* one result, or the empty sequence when the room args[1] is found
room_command(args, S, nargs) ==
  IF S.client = NULL THEN <<handler_abort(S)>>
  ELSE IF Len(args) < nargs THEN <<handler_ret(Null, "Not enough arguments", S)>>
  ELSE IF ~get_joined_room_by_id(S, args[1])
    THEN <<handler_ret(Null, "Room %s not found", S)>>
  ELSE <<>>

\* the handler returns early with e[1], or goes on to found
room_found(e, found) == IF e # <<>> THEN e[1] ELSE found

ev_matrix_room_details(args, S) ==
  room_found(room_command(args, S, 1),
    handler_ret(Val(<<<<"Room Id", args[1]>>, <<"Name">>, <<"Encrypted">>,
                      <<"Unread notifications">>, <<"Events">>>>),
                NULL, S))

ev_matrix_room_events(args, S) ==
  room_found(room_command(args, S, 1),
    handler_ret(Val(<<<<"Events", args[1]>>>>), NULL, S))

ev_matrix_room_load_past_events(args, S, srv) ==
  room_found(room_command(args, S, 1),
    IF srv.reply = "error"
      THEN handler_ret(Null, "Failed to load events: %s", S)
      ELSE handler_ret(Val(<<<<"Loaded events from database">>>>), NULL, S))

ev_matrix_room_get_event(args, S, srv) ==
  room_found(room_command(args, S, 2),
    CASE srv.reply = "ok" ->
           handler_ret(Val(<<<<"    Message type: %s\n">>,
                             <<"       Sender id: %s\n">>>>), NULL, S)
      [] srv.reply = "error" -> handler_ret(Null, "Failed to get event: %s", S)
      [] OTHER -> handler_ret(Null, "Event %s not found", S))

\* pushers is the length of the array, -1 for NULL
ev_matrix_get_pushers(args, S, srv) ==
  IF S.client = NULL THEN handler_abort(S)
  ELSE IF srv.reply # "ok"
    THEN [handler_ret(Null, "Failed to get pushers: %s", S) EXCEPT !.pushers = -1]
  ELSE IF srv.n = 0
    THEN [handler_ret(Val(<<<<"    No pushers configured\n">>>>), NULL, S)
            EXCEPT !.pushers = 0]
  ELSE [handler_ret(Val([i \in 1..srv.n |-> <<"Pusher Id", i - 1>>]), NULL, S)
          EXCEPT !.pushers = srv.n]

\* strtoll (s, &endptr, 10): [n, digits] for a string of decimal digits at
\* the start of s; digits = 0 is endptr == s
Digits == <<"0", "1", "2", "3", "4", "5", "6", "7", "8", "9">>

DigitVal(ch) == (CHOOSE i \in 1..10 : Digits[i] = ch) - 1

IsDigit(ch) == \E i \in 1..10 : Digits[i] = ch

RECURSIVE strtoll(_, _, _)
strtoll(s, n, digits) ==
  IF s # <<>> /\ IsDigit(Head(s))
    THEN strtoll(Tail(s), 10 * n + DigitVal(Head(s)), digits + 1)
    ELSE [n |-> n, digits |-> digits]

\* pusher_id = strtoll (args[0], &endptr, 10): a sign, then the digits
pusher_id(arg) ==
  IF arg # <<>> /\ arg[1] = "-"
    THEN LET p == strtoll(Tail(arg), 0, 0)
         IN [n |-> 0 - p.n, digits |-> p.digits]
    ELSE strtoll(arg, 0, 0)

ev_matrix_remove_pusher(args, S, srv) ==
  IF S.client = NULL THEN handler_abort(S)
  ELSE IF Len(args) < 1 THEN handler_ret(Null, "Not enough arguments", S)
  ELSE LET p == pusher_id(args[1])
       IN IF p.digits = 0 THEN handler_ret(Null, "No numbers found in '%s'", S)
          ELSE IF S.pushers = -1
            THEN handler_ret(Null, "No pushers - did you run /get-pushers ?", S)
          ELSE IF p.n >= S.pushers \/ p.n < 0
            THEN handler_ret(Null, "Invalid pusher id '%ld'", S)
          ELSE IF srv.reply # "ok"
            THEN handler_ret(Null, "Failed to remove pusher: %s", S)
          ELSE handler_ret(Val(<<<<"Removed pusher %ld", p.n>>>>), NULL, S)

\* (ev_cmd (i)->func) (args, &err)
call_func(func, args, S, srv) ==
  CASE func = "ev_prompt_print_help" -> ev_prompt_print_help(args, S)
    [] func = "ev_prompt_print_history" -> ev_prompt_print_history(args, S)
    [] func = "ev_prompt_quit" -> ev_prompt_quit(args, S)
    [] func = "ev_matrix_client_details" -> ev_matrix_client_details(args, S)
    [] func = "ev_matrix_list_rooms" -> ev_matrix_list_rooms(args, S)
    [] func = "ev_matrix_room_details" -> ev_matrix_room_details(args, S)
    [] func = "ev_matrix_room_events" -> ev_matrix_room_events(args, S)
    [] func = "ev_matrix_room_load_past_events" ->
         ev_matrix_room_load_past_events(args, S, srv)
    [] func = "ev_matrix_room_get_event" -> ev_matrix_room_get_event(args, S, srv)
    [] func = "ev_matrix_get_pushers" -> ev_matrix_get_pushers(args, S, srv)
    [] OTHER -> ev_matrix_remove_pusher(args, S, srv)

(***************************************************************************)
(* Dispatch.                                                               *)
(***************************************************************************)
\* run_command falling back to the first command when no name is equal
run_command_find_first(cmds, av) ==
  LET name == Tail(av[1])
      hits == {i \in 1..Len(cmds) : cmds[i].name = name}
  IN IF hits = {} THEN 1 ELSE CHOOSE i \in hits : \A j \in hits : i <= j

\* run_command comparing only as many characters as were typed
run_command_find_prefix(cmds, av) ==
  LET name == Tail(av[1])
      hits == {i \in 1..Len(cmds) :
                 /\ Len(name) <= Len(cmds[i].name)
                 /\ SubSeq(cmds[i].name, 1, Len(name)) = name}
  IN IF hits = {} THEN 0 ELSE CHOOSE i \in hits : \A j \in hits : i <= j

\* the first command whose name g_strcmp0 finds equal to av[0] + 1, 0 for none
run_command_find(cmds, av) ==
  LET name == Tail(av[1])
      hits == {i \in 1..Len(cmds) : cmds[i].name = name}
  IN IF hits = {} THEN 0 ELSE CHOOSE i \in hits : \A j \in hits : i <= j

\* the argument copy of run_command starting at k = 0
run_command_args_from0(av, ac) == [k \in 1..(IF ac > 0 THEN ac ELSE 0) |-> av[k]]

\* tokens[1:] as run_command copies them: av[k] for k = 1 .. ac - 1
run_command_args(av, ac) == [k \in 1..(IF ac > 1 THEN ac - 1 ELSE 0) |-> av[k + 1]]

\* the rendering of run_command without the test of out->len
run_command_render_nolen(h) ==
  IF ~h.out.null
    THEN <<<<"\n%s\n", h.out.v>>>>
    ELSE <<<<"ESC[31m">>,
           IF h.err # NULL THEN <<"Command failed: %s\n", h.err>>
           ELSE <<"Internal error - Command failed to set error\n">>,
           <<"ESC[39m">>>>

\* how run_command prints what a handler returned
run_command_render(h) ==
  IF ~h.out.null
    THEN IF Len(h.out.v) > 0 THEN <<<<"\n%s\n", h.out.v>>>> ELSE <<>>
    ELSE <<<<"ESC[31m">>,
           IF h.err # NULL THEN <<"Command failed: %s\n", h.err>>
           ELSE <<"Internal error - Command failed to set error\n">>,
           <<"ESC[39m">>>>

\* run_command once the handler of command i has returned h
run_command_done(i, func, args, h) ==
  [term |-> IF h.abort THEN <<>> ELSE run_command_render(h),
   invoked |-> <<[cmd |-> i, func |-> func, args |-> args,
                  out |-> h.out, err |-> h.err]>>,
   quits |-> h.quits, abort |-> h.abort, pushers |-> h.pushers]

\* run_command with i the command found and args the arguments copied
run_command_call(i, args, av, S, srv) ==
  IF i = 0
    THEN [term |-> <<<<"\nUnknown command '%s'\n", Tail(av[1])>>>>,
          invoked |-> <<>>, quits |-> 0, abort |-> FALSE, pushers |-> S.pushers]
    ELSE run_command_done(i, S.commands[i].func, args,
                          call_func(S.commands[i].func, args, S, srv))

\* run_command (av, ac) in the state S
run_command(av, ac, S, srv) ==
  run_command_call(run_command_find(S.commands, av), run_command_args(av, ac),
                   av, S, srv)

(***************************************************************************)
(* History (libedit's history with H_SETSIZE and H_SETUNIQUE).             *)
(***************************************************************************)
\* history (hist, &ev, H_SETSIZE, 100)
HistSize == 100

\* H_ENTER that never deletes an entry
history_enter_nocut(h, id, str) ==
  IF h # <<>> /\ h[1].str = str
    THEN [hist |-> h, eventid |-> id]
    ELSE [hist |-> <<[num |-> id + 1, str |-> str]>> \o h, eventid |-> id + 1]

\* history (hist, &ev, H_ENTER, str) on the list h, most recent first
\* H_ENTER putting the new entry behind the oldest one
history_enter_behind(h, id, str) ==
  IF h # <<>> /\ h[1].str = str
    THEN [hist |-> h, eventid |-> id]
    ELSE LET n == h \o <<[num |-> id + 1, str |-> str]>>
         IN [hist |-> SubSeq(n, 1, Min(Len(n), HistSize)), eventid |-> id + 1]

history_enter(h, id, str) ==
  IF h # <<>> /\ h[1].str = str
    THEN [hist |-> h, eventid |-> id]
    ELSE LET n == <<[num |-> id + 1, str |-> str]>> \o h
         IN [hist |-> SubSeq(n, 1, Min(Len(n), HistSize)), eventid |-> id + 1]

\* strvis (ptr, ev.str, VIS_WHITE) as history H_SAVE applies it: a blank
\* becomes a backslash and its octal code, tab and newline a backslash, a
\* caret and their letter, and a backslash is doubled
vis(ch) ==
  CASE ch = " " -> <<"\\", "0", "4", "0">>
    [] ch = TAB -> <<"\\", "^", "I">>
    [] ch = NL -> <<"\\", "^", "J">>
    [] ch = "\\" -> <<"\\", "\\">>
    [] OTHER -> <<ch>>

RECURSIVE strvis(_)
strvis(str) == IF str = <<>> THEN <<>> ELSE vis(Head(str)) \o strvis(Tail(str))

\* the character with the octal code d1 d2 d3, among those strvis writes
unvis_octal(d1, d2, d3) ==
  CASE <<d1, d2, d3>> = <<"0", "4", "0">> -> " "
    [] OTHER -> "?"

\* the control character written as a caret and the letter c
unvis_ctrl(c) ==
  CASE c = "I" -> TAB
    [] c = "J" -> NL
    [] OTHER -> "?"

\* strunvis (ptr, line) as history H_LOAD applies it to a line of the file
RECURSIVE strunvis(_)
strunvis(str) ==
  IF str = <<>> THEN <<>>
  ELSE IF Head(str) # "\\" THEN <<Head(str)>> \o strunvis(Tail(str))
  ELSE IF Len(str) >= 2 /\ str[2] = "\\"
    THEN <<"\\">> \o strunvis(SubSeq(str, 3, Len(str)))
  ELSE IF Len(str) >= 3 /\ str[2] = "^"
    THEN <<unvis_ctrl(str[3])>> \o strunvis(SubSeq(str, 4, Len(str)))
  ELSE IF Len(str) >= 4
    THEN <<unvis_octal(str[2], str[3], str[4])>>
         \o strunvis(SubSeq(str, 5, Len(str)))
  ELSE <<>>

\* the loop of history_save_fp from the n-th entry of h on: one encoded
\* line for every entry, from the oldest entry (the last of h) to the newest
RECURSIVE history_save_fp(_, _)
history_save_fp(h, n) ==
  IF n = 0 THEN <<>>
  ELSE strvis(h[n].str) \o <<NL>> \o history_save_fp(h, n - 1)

\* the same loop walking from the newest entry to the oldest
RECURSIVE history_save_fp_newest(_, _)
history_save_fp_newest(h, n) ==
  IF n = 0 THEN <<>>
  ELSE strvis(h[Len(h) + 1 - n].str) \o <<NL>>
       \o history_save_fp_newest(h, n - 1)

\* history (hist, &ev, H_SAVE, hist_path) writing the newest entry first
history_save_newest(h) == Val(history_save_fp_newest(h, Len(h)))

\* history (hist, &ev, H_SAVE, hist_path): the characters of the file after
\* its header line
history_save(h) == Val(history_save_fp(h, Len(h)))

\* the position after the line of the text that starts at position pos:
\* that of its newline, or the end of the text
RECURSIVE getline(_, _)
getline(text, pos) ==
  IF pos > Len(text) \/ text[pos] = NL THEN pos ELSE getline(text, pos + 1)

\* the loop of history_load_fp from position pos of the text: every line
\* is read without its newline, decoded and entered
RECURSIVE history_load_fp(_, _, _)
history_load_fp(s, text, pos) ==
  IF pos > Len(text) \/ s.eventid < 0 THEN s
  ELSE history_load_fp(
         history_enter(s.hist, s.eventid,
                       strunvis(SubSeq(text, pos, getline(text, pos) - 1))),
         text, getline(text, pos) + 1)

\* history (hist, &ev, H_LOAD, hist_path) into the store h
history_load(h, id, text) ==
  history_load_fp([hist |-> h, eventid |-> id], text, 1)

\* ev_prompt_init running H_LOAD without the g_file_test before it
ev_prompt_init_always(file) ==
  history_load(<<>>, 0, file.v) @@ [loaded |-> TRUE]

\* ev_prompt_init: the store after history_init, H_SETSIZE, H_SETUNIQUE, and
\* H_LOAD if the file exists
ev_prompt_init(file) ==
  IF file.null THEN [hist |-> <<>>, eventid |-> 0, loaded |-> FALSE]
  ELSE history_load(<<>>, 0, file.v) @@ [loaded |-> TRUE]

(***************************************************************************)
(* The editing widget, one key at a time (EL_UNBUFFERED).                  *)
(***************************************************************************)
ed_insert(e, ch) ==
  [line |-> SubSeq(e.line, 1, e.cursor) \o <<ch>>
            \o SubSeq(e.line, e.cursor + 1, Len(e.line)),
   cursor |-> e.cursor + 1]

ed_prev_char(e) ==
  [line |-> e.line, cursor |-> IF e.cursor > 0 THEN e.cursor - 1 ELSE 0]

ed_newline(e) == [line |-> Append(e.line, NL), cursor |-> e.cursor]

\* el_gets (el, &num) reading one key: Tab runs complete()
el_gets(e, t, key, cmds, rooms, garbage, wm, mem) ==
  LET quiet(n) == [ret |-> "none", line |-> n.line, cursor |-> n.cursor,
                   term |-> <<>>, completions |-> <<>>, called |-> <<>>,
                   tok |-> t, wmax |-> wm]
  IN CASE key = TAB -> complete(e, t, cmds, rooms, garbage, wm, mem)
       [] key = LEFT -> quiet(ed_prev_char(e))
       [] key = NL -> quiet(ed_newline(e))
       [] OTHER -> quiet(ed_insert(e, key))

(***************************************************************************)
(* What the environment decides.                                           *)
(***************************************************************************)
\* what a read past the end of a C string finds before the next NUL
Garbage == {<<>>, <<"?">>}

\* the byte a read at li->lastchar - 1 finds when the line buffer is empty
Before == {NUL, NL}

\* what the uninitialised av of on_stdin_ready holds when tok_line returned
\* early: a pointer that cannot be read, or some token vector
UninitAv ==
  {[crash |-> TRUE, av |-> <<>>], [crash |-> FALSE, av |-> <<>>],
   [crash |-> FALSE, av |-> <<<<"/", "?">>>>],
   [crash |-> FALSE, av |-> <<<<"/">> \o n_help>>]}

\* the server's answer to a synchronous request of a handler
Server ==
  {[reply |-> "ok", n |-> k] : k \in 0..MaxPushers}
  \cup {[reply |-> "error", n |-> 0], [reply |-> "nothing", n |-> 0]}

\* the rooms the account joins, in the order it joins them
room_a == <<"!", "a">>
room_b == <<"!", "b">>
Rooms == <<room_a, room_b>>

(***************************************************************************)
(* on_stdin_ready.                                                         *)
(***************************************************************************)
\* reset (): a new widget, the tokenizer reset
reset(n) == [n EXCEPT !.line = <<>>, !.cursor = 0, !.tok = tok_reset,
                      !.resets = @ + 1]

\* on_stdin_ready once run_command returned d
stdin_command(recorded, d) ==
  IF d.abort
    THEN [recorded EXCEPT !.status = "aborted", !.invoked = d.invoked]
    ELSE reset([recorded EXCEPT !.term = d.term, !.invoked = d.invoked,
                                !.quits = d.quits, !.pushers = d.pushers])

\* on_stdin_ready after tok_line returned r and the line was offered to
\* the history (he); S is what the handlers see
stdin_tokens(base, r, he, av, S, uav, srv) ==
  LET recorded == [base EXCEPT !.tok = r.tok, !.wmax = r.wmax,
                               !.hist = he.hist, !.eventid = he.eventid]
  IN IF r.rv < 0 THEN reset(base)
     ELSE IF ~r.set /\ uav.crash THEN [recorded EXCEPT !.status = "crashed"]
     ELSE IF av # <<>> /\ av[1] # <<>> /\ av[1][1] = "/"
       THEN stdin_command(recorded, run_command(av, r.ac, S, srv))
     ELSE reset(recorded)

\* on_stdin_ready recording only buffers of more than three characters
stdin_history_long(buf) ==
  IF Len(buf) > 3 THEN history_enter(hist, eventid, buf)
  ELSE [hist |-> hist, eventid |-> eventid]

\* on_stdin_ready recording every buffer that is not empty
stdin_history_any(buf) ==
  IF Len(buf) > 0 THEN history_enter(hist, eventid, buf)
  ELSE [hist |-> hist, eventid |-> eventid]

\* the history after on_stdin_ready offered it the line buf
stdin_history(buf) ==
  IF Len(buf) > 1 THEN history_enter(hist, eventid, buf)
  ELSE [hist |-> hist, eventid |-> eventid]

\* what the handlers would see if run_command ran before H_ENTER
stdin_state_before(he) ==
  [commands |-> commands, hist |-> hist, client |-> client,
   joined_rooms |-> joined_rooms, pushers |-> pushers]

\* what the handlers called from on_stdin_ready see
stdin_state(he) ==
  [commands |-> commands, hist |-> he.hist, client |-> client,
   joined_rooms |-> joined_rooms, pushers |-> pushers]

\* on_stdin_ready after tok_line returned r for the finished line of g
stdin_parsed(base, g, r, he, uav, srv) ==
  stdin_tokens(base, r, he, IF r.set THEN r.av ELSE uav.av, stdin_state(he),
               uav, srv)

\* on_stdin_ready after el_gets left g
stdin_line(g, before, uav, srv, mem) ==
  LET lastchar == IF g.line = <<>> THEN before ELSE g.line[Len(g.line)]
      base == [line |-> g.line, cursor |-> g.cursor, tok |-> g.tok,
               wmax |-> g.wmax, mem |-> mem,
               hist |-> hist, eventid |-> eventid, quits |-> 0,
               status |-> "running", pushers |-> pushers, term |-> g.term,
               invoked |-> <<>>, called |-> g.called,
               completions |-> g.completions, ret |-> g.ret, resets |-> 0]
  IN IF lastchar # NL THEN base
     \* el_gets returned NULL for the empty buffer: strlen (buf) reads NULL
     ELSE IF g.line = <<>> THEN [base EXCEPT !.status = "crashed"]
     ELSE stdin_parsed(base, g,
                       tok_line(g.tok, g.line, g.cursor, g.wmax, mem),
                       stdin_history(g.line), uav, srv)

\* on_stdin_ready with `key` the next key on standard input: the new values
\* of the state it touches
stdin_ready(key, garbage, before, uav, srv, mem) ==
  stdin_line(el_gets([line |-> line, cursor |-> cursor], tok, key, commands,
                     joined_rooms, garbage, wmax, mem),
             before, uav, srv, mem)

\* g_application_release through ev_quit, n times: the use count never
\* goes below zero (g_return_if_fail (use_count > 0))
ev_quit(h, n) == IF h - n < 0 THEN 0 ELSE h - n

\* a source of the main loop is dispatched when its event is the next one,
\* while the application is held, and once more in the iteration in which
\* the use count reached zero
Dispatchable(source, events) ==
  /\ status = "running"
  /\ ready # <<>>
  /\ Head(ready) \in events
  /\ holds > 0 \/ source \notin late

Dispatched(source) ==
  /\ ready' = Tail(ready)
  /\ late' = IF holds' = 0 THEN late \cup {source} ELSE {}

\* the events of the main loop that are no keys
Signals == {"SIGTERM", "SIGINT"}
OpenEvents == {"open failed", "open no login", "open"}
LoopEvents == Signals \cup OpenEvents \cup {"room joined", "bad password"}

\* the keys that can be typed
Keys ==
  {TAB, LEFT, NL, "/", " ", "\"", "!", "-", "0", "1", "H",
   "a", "b", "c", "d", "e", "g", "h", "i", "l", "m", "n", "o", "p", "q", "r",
   "s", "t", "u", "v", "x", "y"}

\* the state on_stdin_ready leaves: n is what stdin_ready computed
stdin_assign(key, n) ==
  /\ pre' = [key |-> key, line |-> line, cursor |-> cursor, tok |-> tok,
             wmax |-> wmax, mem |-> n.mem]
  /\ line' = n.line
  /\ cursor' = n.cursor
  /\ tok' = n.tok
  /\ wmax' = n.wmax
  /\ hist' = n.hist
  /\ eventid' = n.eventid
  /\ holds' = ev_quit(holds, n.quits)
  /\ releases' = releases + n.quits
  /\ status' = n.status
  /\ pushers' = n.pushers
  /\ term' = n.term
  /\ invoked' = n.invoked
  /\ called' = n.called
  /\ completions' = n.completions
  /\ ret' = n.ret
  /\ resets' = n.resets

\* the tokenizer's word space has to grow in the callback that reads key
Grows(key) ==
  \/ key = TAB /\ tok_line(tok, line, cursor, wmax, "fails").rv < 0
  \/ key = NL /\ tok_line(tok, Append(line, NL), cursor, wmax, "fails").rv < 0

on_stdin_ready ==
  /\ Dispatchable("stdin", Keys)
  /\ \E garbage \in IF Head(ready) = TAB THEN Garbage ELSE {<<>>},
        before \in IF line = <<>> /\ Head(ready) \in {TAB, LEFT}
                     THEN Before ELSE {NUL},
        uav \in IF Head(ready) = NL THEN UninitAv
                ELSE {[crash |-> FALSE, av |-> <<>>]},
        srv \in IF Head(ready) = NL THEN Server
                ELSE {[reply |-> "nothing", n |-> 0]},
        mem \in IF Grows(Head(ready)) THEN Realloc ELSE {"ok"} :
       stdin_assign(Head(ready),
                    stdin_ready(Head(ready), garbage, before, uav, srv, mem))
  /\ UNCHANGED <<commands, client, joined_rooms, opened, signals, histfile,
                 loaded, builder, built>>
  /\ Dispatched("stdin")

(***************************************************************************)
(* The other callbacks of the main loop.                                   *)
(***************************************************************************)
\* on_matrix_open: the open, the configuration or the login id fails
\* (ev_quit), with or without the client created, or the client is enabled
on_matrix_open ==
  /\ Dispatchable("matrix", OpenEvents)
  /\ ~opened
  /\ Len(commands) > Len(prompt_commands)
  /\ opened' = TRUE
  /\ client' = IF Head(ready) = "open failed" THEN NULL ELSE "set"
  /\ joined_rooms' = IF Head(ready) = "open" THEN Val(<<>>) ELSE Null
  /\ holds' = IF Head(ready) = "open" THEN holds ELSE ev_quit(holds, 1)
  /\ releases' = IF Head(ready) = "open" THEN releases ELSE releases + 1
  /\ UNCHANGED <<commands, line, cursor, tok, wmax, hist, eventid, status,
                 pushers, term, invoked, called, completions, ret, resets, pre,
                 signals, histfile, loaded, builder, built>>
  /\ Dispatched("matrix")

\* on_joined_rooms_items_changed: the account has joined one more room; the
\* callback itself only logs the list
on_joined_rooms_items_changed ==
  /\ Dispatchable("rooms", {"room joined"})
  /\ ~joined_rooms.null
  /\ Len(joined_rooms.v) < Len(Rooms)
  /\ joined_rooms' = Val(SubSeq(Rooms, 1, Len(joined_rooms.v) + 1))
  /\ UNCHANGED <<commands, line, cursor, tok, wmax, hist, eventid, holds,
                 releases, status, client, pushers, opened, term, invoked, called,
                 completions, ret, resets, pre, signals, histfile, loaded,
                 builder, built>>
  /\ Dispatched("rooms")

\* on_client_sync reporting CM_ERROR_BAD_PASSWORD
on_client_sync ==
  /\ Dispatchable("sync", {"bad password"})
  /\ ~joined_rooms.null
  /\ holds' = ev_quit(holds, 1)
  /\ releases' = releases + 1
  /\ UNCHANGED <<commands, line, cursor, tok, wmax, hist, eventid, status,
                 client, joined_rooms, pushers, opened, term, invoked, called,
                 completions, ret, resets, pre, signals, histfile, loaded,
                 builder, built>>
  /\ Dispatched("sync")

\* on_signal for SIGTERM or SIGINT: ev_quit, and the source is removed
on_signal ==
  /\ Dispatchable(Head(ready), signals)
  /\ signals' = signals \ {Head(ready)}
  /\ holds' = ev_quit(holds, 1)
  /\ releases' = releases + 1
  /\ UNCHANGED <<commands, line, cursor, tok, wmax, hist, eventid, status,
                 client, joined_rooms, pushers, opened, term, invoked, called,
                 completions, ret, resets, pre, histfile, loaded,
                 builder, built>>
  /\ Dispatched(Head(ready))

\* ev_application_shutdown once g_application_run has left its loop:
\* ev_prompt_destroy saves the history, ev_matrix_destroy drops the client
ev_application_shutdown ==
  /\ status = "running"
  /\ holds = 0
  /\ status' = "stopped"
  /\ histfile' = history_save(hist)
  /\ client' = NULL
  /\ pushers' = -1
  /\ UNCHANGED <<ready, commands, line, cursor, tok, wmax, hist, eventid, holds,
                 releases, joined_rooms, opened, term, invoked, called, completions, ret,
                 resets, pre, signals, late, loaded, builder, built>>

(***************************************************************************)
(* What is typed.                                                          *)
(***************************************************************************)
Cmd(n) == <<"/">> \o n
Sp == <<" ">>
bogus == <<"b", "o", "g", "u", "s">>

\* lines typed and then edited, with the prompt's own commands
PromptLines ==
  { <<>>, <<"/">>, <<"x">>, <<"h", "i">>, <<"/", "h">>, <<"/", "h", "e">>,
    <<"/", "h", "e", "l">>, <<"/", "q">>,
    <<" ", "/", "h", "e">>, <<"\"", "/", "h", "e">>, <<"\"", "\"", " ", "h">>,
    Cmd(n_help), Cmd(n_help) \o <<"x">>, <<"/", "H", "e", "l", "p">>,
    Cmd(n_quit), Cmd(n_history), Cmd(bogus), Cmd(bogus) \o Sp \o <<"h">>,
    Cmd(n_help) \o Sp, Cmd(n_help) \o Sp \o <<"q">>,
    Cmd(n_help) \o Sp \o n_quit, Cmd(n_help) \o Sp \o n_quit \o Sp \o <<"h">>,
    Cmd(n_help) \o Sp \o <<"\"", "q", "\"">>,
    Cmd(n_quit) \o Sp \o <<"\"">>,
    <<"x">> \o n_help \o Sp }

\* lines typed and then edited, with the matrix commands
MatrixLines ==
  { <<"/", "r", "e">>, <<"/", "r", "o", "o", "m", "-", "d">>,
    Cmd(n_room_details), Cmd(n_room_details) \o Sp,
    Cmd(n_room_details) \o Sp \o <<"!">>,
    Cmd(n_room_details) \o Sp \o room_a,
    Cmd(n_room_get_event) \o Sp \o room_a \o Sp,
    Cmd(n_room_get_event) \o Sp \o room_a \o Sp \o <<"e">>,
    Cmd(n_room_load_past_events) \o Sp \o room_a,
    Cmd(n_room_events) \o Sp \o room_b,
    Cmd(n_client_details), Cmd(n_rooms), Cmd(n_get_pushers),
    Cmd(n_remove_pusher), Cmd(n_remove_pusher) \o Sp \o <<"0">>,
    Cmd(n_remove_pusher) \o Sp \o <<"1">>, Cmd(n_remove_pusher) \o Sp \o <<"x">> }

\* n times the key ^B
Lefts(n) == [i \in 1..n |-> LEFT]

\* the keys that end an editing script
Endings == {<<NL>>, <<TAB, NL>>, <<TAB, TAB, NL>>}

EditScripts(lines) ==
  { l \o Lefts(k) \o e : l \in lines, k \in 0..MaxLeft, e \in Endings }

\* what the matrix library reports before the line is typed
MatrixStarts ==
  { <<>>, <<"open failed">>, <<"open no login">>, <<"open">>,
    <<"open", "room joined">>, <<"open", "room joined", "room joined">> }

\* lines submitted one after the other in a session
SessionLines ==
  { <<>>, <<"x">>, <<"h", "i">>, Cmd(n_help), Cmd(n_quit), Cmd(n_history),
    Cmd(bogus) }

RECURSIVE Sessions(_)
Sessions(n) ==
  IF n = 0 THEN {<<>>}
  ELSE {<<>>} \cup { l \o <<NL>> \o s : l \in SessionLines, s \in Sessions(n - 1) }

\* every way to put the event ev into the sequence s
Insert(s, ev) ==
  { SubSeq(s, 1, k) \o <<ev>> \o SubSeq(s, k + 1, Len(s)) : k \in 0..Len(s) }

\* the schedules of a session started with EV_DEBUG=no-matrix
PromptSchedules ==
  EditScripts(PromptLines) \cup Sessions(MaxLines)
  \cup UNION { Insert(s, sig) : s \in Sessions(MaxLines), sig \in Signals }

\* what is given to /remove-pusher as the id
PusherIds == {<<"0">>, <<"1">>, <<"-", "1">>, <<"x">>, <<"0", "x">>}

\* /get-pushers once or twice, or not at all, and then /remove-pusher
PusherSchedules ==
  { <<"open">> \o g \o Cmd(n_remove_pusher) \o Sp \o id \o <<NL>> :
      g \in {<<>>, Cmd(n_get_pushers) \o <<NL>>,
             Cmd(n_get_pushers) \o <<NL>> \o Cmd(n_get_pushers) \o <<NL>>},
      id \in PusherIds }

\* the schedules of a session with the matrix commands
MatrixSchedules ==
  { m \o s : m \in MatrixStarts, s \in EditScripts(MatrixLines) }
  \cup UNION { Insert(s, "bad password") :
                 s \in { <<"open">> \o t : t \in Sessions(1) } }
  \cup UNION { Insert(Cmd(n_get_pushers) \o <<NL>>, sig) : sig \in Signals }
  \cup PusherSchedules

(***************************************************************************)
(* The format builder (ev-format-builder.c).  keys and values are the two  *)
(* pointer arrays; an element is Val(string) or Null for NULL.             *)
(***************************************************************************)
INFO_INDENT == 4

\* ev_format_builder_init
ev_format_builder_new == [indent |-> 0, keys |-> <<>>, values |-> <<>>]

\* no call was made on the builder yet
NotBuilt == [call |-> <<>>, out |-> Null, failed |-> FALSE]

\* the keys, values and indents the callers hand to the builder
BuilderKeys == {<<"a">>, <<"k", "e", "y">>}
BuilderValues == {Null, Val(<<>>), Val(<<"v">>)}
Indents == {0, INFO_INDENT}

\* the builder takes calls: no assertion failed, it was not ended
Building == ~built.failed /\ built.out.null

Called(op, key, value) ==
  built' = [call |-> <<op, key, value>>, out |-> Null, failed |-> FALSE]

ev_format_builder_set_indent(indent) ==
  /\ Building
  /\ builder.indent # indent
  /\ builder' = [builder EXCEPT !.indent = indent]
  /\ Called("set_indent", indent, Null)
  /\ UNCHANGED session

\* g_strdup (NULL) is NULL
ev_format_builder_add(key, value) ==
  /\ Building
  /\ Len(builder.keys) < MaxEntries
  /\ builder' = [builder EXCEPT !.keys = Append(@, Val(key)),
                                !.values = Append(@, value)]
  /\ Called("add", key, value)
  /\ UNCHANGED session

\* ev_format_builder_add_nonnull looking at the value only once the key is
\* in its array
ev_format_builder_add_nonnull_late(key, value) ==
  /\ Building
  /\ Len(builder.keys) < MaxEntries
  /\ builder' = IF value.null
                  THEN [builder EXCEPT !.keys = Append(@, Val(key))]
                  ELSE [builder EXCEPT !.keys = Append(@, Val(key)),
                                       !.values = Append(@, value)]
  /\ Called("add_nonnull", key, value)
  /\ UNCHANGED session

ev_format_builder_add_nonnull(key, value) ==
  /\ Building
  /\ Len(builder.keys) < MaxEntries
  /\ builder' = IF value.null THEN builder
                ELSE [builder EXCEPT !.keys = Append(@, Val(key)),
                                     !.values = Append(@, value)]
  /\ Called("add_nonnull", key, value)
  /\ UNCHANGED session

ev_format_builder_take(key, value) ==
  /\ Building
  /\ Len(builder.keys) < MaxEntries
  /\ builder' = [builder EXCEPT !.keys = Append(@, Val(key)),
                                !.values = Append(@, value)]
  /\ Called("take", key, value)
  /\ UNCHANGED session

ev_format_builder_add_newline ==
  /\ Building
  /\ Len(builder.keys) < MaxEntries
  /\ builder' = [builder EXCEPT !.keys = Append(@, Null),
                                !.values = Append(@, Null)]
  /\ Called("add_newline", Null, Null)
  /\ UNCHANGED session

\* the largest strlen (key) of the keys that are not NULL, 0 for none
max_len(keys) ==
  LET lens == {Len(keys[i].v) : i \in {j \in 1..Len(keys) : ~keys[j].null}}
                \cup {0}
  IN CHOOSE m \in lens : \A n \in lens : n <= m

\* printf ("%*s", width, str): str after the blanks that fill the width
padded(width, str) ==
  [i \in 1..(IF width > Len(str) THEN width - Len(str) ELSE 0) |-> " "] \o str

\* the line ev_format_builder_end appends for entry i
format_line(b, i, width) ==
  IF b.keys[i].null THEN <<NL>>
  ELSE padded(width, b.keys[i].v) \o <<" ", ":", " ">>
       \o (IF b.values[i].null THEN <<>> ELSE b.values[i].v) \o <<NL>>

\* ev_format_builder_end: the assertion on the lengths, then one line for
\* each entry
ev_format_builder_end ==
  /\ Building
  /\ built' =
       IF Len(builder.keys) # Len(builder.values)
         THEN [call |-> <<"end", Null, Null>>, out |-> Null, failed |-> TRUE]
         ELSE [call |-> <<"end", Null, Null>>,
               out |-> Val([i \in 1..Len(builder.keys) |->
                              format_line(builder, i,
                                          max_len(builder.keys)
                                          + builder.indent)]),
               failed |-> FALSE]
  /\ UNCHANGED <<builder, session>>

\* the caller drops the builder that was ended and makes a new one
ev_format_builder_finalize ==
  /\ ~built.out.null
  /\ builder' = ev_format_builder_new
  /\ built' = NotBuilt
  /\ UNCHANGED session

BuilderNext ==
  \/ \E indent \in Indents : ev_format_builder_set_indent(indent)
  \/ \E key \in BuilderKeys, value \in BuilderValues :
       ev_format_builder_add(key, value)
  \/ \E key \in BuilderKeys, value \in BuilderValues :
       ev_format_builder_add_nonnull(key, value)
  \/ \E key \in BuilderKeys, value \in BuilderValues :
       ev_format_builder_take(key, value)
  \/ ev_format_builder_add_newline
  \/ ev_format_builder_end
  \/ ev_format_builder_finalize

(***************************************************************************)
(* The session.                                                            *)
(***************************************************************************)
\* an entry a session before this one recorded
OldEntry(i) ==
  <<"\\", " ", Digits[(i \div 10) + 1], Digits[(i % 10) + 1], NL>>

\* the history file a session before this one saved with n such entries
OldHistoryFile(n) == history_save([i \in 1..n |-> [num |-> n + 1 - i,
                                                   str |-> OldEntry(n - i)]])

\* the history files found at the first start: a short one that holds
\* "/help" and then "hi", and two at and next to the capacity
HistoryFiles ==
  { history_save(<<[num |-> 2, str |-> <<"h", "i", NL>>],
                   [num |-> 1, str |-> Append(Cmd(n_help), NL)]>>),
    OldHistoryFile(HistSize - 1), OldHistoryFile(HistSize) }

\* what a start of the program leaves: ev_application_startup (ev_matrix_init,
\* ev_prompt_init, whose store is init) and ev_application_activate
\* (g_application_hold)
Started(init) ==
  [line |-> <<>>,
   cursor |-> 0,
   tok |-> tok_reset,
   wmax |-> WINCR,
   hist |-> init.hist,
   eventid |-> init.eventid,
   loaded |-> init.loaded,
   holds |-> 1,
   releases |-> 0,
   status |-> "running",
   client |-> NULL,
   joined_rooms |-> Null,
   pushers |-> -1,
   opened |-> FALSE,
   term |-> <<>>,
   invoked |-> <<>>,
   called |-> <<>>,
   completions |-> <<>>,
   ret |-> "none",
   resets |-> 0,
   pre |-> [key |-> NUL, line |-> <<>>, cursor |-> 0, tok |-> tok_reset,
           wmax |-> WINCR, mem |-> "ok"],
   signals |-> Signals,
   late |-> {}]

\* the session starts in the state s
StartsIn(s) ==
  /\ line = s.line
  /\ cursor = s.cursor
  /\ tok = s.tok
  /\ wmax = s.wmax
  /\ hist = s.hist
  /\ eventid = s.eventid
  /\ loaded = s.loaded
  /\ holds = s.holds
  /\ releases = s.releases
  /\ status = s.status
  /\ client = s.client
  /\ joined_rooms = s.joined_rooms
  /\ pushers = s.pushers
  /\ opened = s.opened
  /\ term = s.term
  /\ invoked = s.invoked
  /\ called = s.called
  /\ completions = s.completions
  /\ ret = s.ret
  /\ resets = s.resets
  /\ pre = s.pre
  /\ signals = s.signals
  /\ late = s.late

\* the first start: without a history file under any schedule, with one
\* under the schedules that submit lines
Init ==
  /\ \E no_matrix \in BOOLEAN :
       /\ commands = ev_application_startup(no_matrix)
       /\ \/ /\ histfile = Null
             /\ ready \in IF no_matrix THEN PromptSchedules ELSE MatrixSchedules
          \/ /\ no_matrix
             /\ histfile \in HistoryFiles
             /\ ready \in Sessions(MaxLines)
  /\ \E s \in {Started(ev_prompt_init(histfile))} : StartsIn(s)
  /\ builder = ev_format_builder_new
  /\ built = NotBuilt

\* the session starts again in the state s
StartsAgainIn(s) ==
  /\ line' = s.line
  /\ cursor' = s.cursor
  /\ tok' = s.tok
  /\ wmax' = s.wmax
  /\ hist' = s.hist
  /\ eventid' = s.eventid
  /\ loaded' = s.loaded
  /\ holds' = s.holds
  /\ releases' = s.releases
  /\ status' = s.status
  /\ client' = s.client
  /\ joined_rooms' = s.joined_rooms
  /\ pushers' = s.pushers
  /\ opened' = s.opened
  /\ term' = s.term
  /\ invoked' = s.invoked
  /\ called' = s.called
  /\ completions' = s.completions
  /\ ret' = s.ret
  /\ resets' = s.resets
  /\ pre' = s.pre
  /\ signals' = s.signals
  /\ late' = s.late

\* the program is started again after it stopped: main, with the history
\* file the session before left
main ==
  /\ status = "stopped"
  /\ \E s \in {Started(ev_prompt_init(histfile))} : StartsAgainIn(s)
  /\ UNCHANGED <<ready, commands, histfile, builder, built>>

Next ==
  \/ on_stdin_ready
  \/ on_matrix_open
  \/ on_joined_rooms_items_changed
  \/ on_client_sync
  \/ on_signal
  \/ ev_application_shutdown
  \/ main

Spec == Init /\ [][Next]_vars

\* g_application_run leaves its loop once the use count is zero, and
\* ev_application_shutdown runs
Fairness == WF_vars(ev_application_shutdown)

\* the sessions in which a signal arrives: with the prompt's own commands
\* around one line, with the matrix commands around /get-pushers
SignalSchedules(no_matrix) ==
  IF no_matrix
    THEN UNION { Insert(s, sig) : s \in Sessions(1), sig \in Signals }
    ELSE UNION { Insert(m \o Cmd(n_get_pushers) \o <<NL>>, sig) :
                   m \in {<<>>, <<"open", "room joined">>,
                          <<"open", "bad password">>},
                   sig \in Signals }

SignalInit ==
  /\ histfile = Null
  /\ \E no_matrix \in BOOLEAN :
       /\ commands = ev_application_startup(no_matrix)
       /\ ready \in SignalSchedules(no_matrix)
  /\ \E s \in {Started(ev_prompt_init(histfile))} : StartsIn(s)
  /\ builder = ev_format_builder_new
  /\ built = NotBuilt

SignalSpec == SignalInit /\ [][Next]_vars /\ Fairness

\* the arrays a caller can hand to ev_prompt_add_commands: the new array,
\* the array after the matrix batch, and an array that holds the prompt's
\* batch already
Registries == {<<>>, ev_matrix_add_commands(<<>>), ev_prompt_add_commands(<<>>)}

\* a session on the registry ev_prompt_add_commands leaves on such an array
RegisterInit ==
  /\ histfile = Null
  /\ \E r \in Registries :
       /\ commands = ev_prompt_add_commands(r)
       /\ ready \in SignalSchedules(r # ev_matrix_add_commands(<<>>))
  /\ \E s \in {Started(ev_prompt_init(histfile))} : StartsIn(s)
  /\ builder = ev_format_builder_new
  /\ built = NotBuilt

RegisterSpec == RegisterInit /\ [][Next]_vars

\* a builder in a session that reads nothing
BuilderInit ==
  /\ histfile = Null
  /\ commands = ev_application_startup(TRUE)
  /\ ready = <<>>
  /\ \E s \in {Started(ev_prompt_init(histfile))} : StartsIn(s)
  /\ builder = ev_format_builder_new
  /\ built = NotBuilt

BuilderSpec == BuilderInit /\ [][BuilderNext]_vars

(***************************************************************************)
(* Properties.  The state after a callback is compared with what the       *)
(* callback found: pre holds the key, the line and the cursor.             *)
(***************************************************************************)
\* tok_line on a tokenizer that has been reset
Tokens(l, c) == tok_line(tok_reset, l, c, WINCR, "ok")

IsPrefix(p, n) == Len(p) <= Len(n) /\ SubSeq(n, 1, Len(p)) = p

Registered(name) == \E i \in 1..Len(commands) : commands[i].name = name

\* the latest callback read Enter: the tokens of the line it submitted
SubmittedTokens ==
  tok_line(pre.tok, Append(pre.line, NL), pre.cursor, pre.wmax, pre.mem)

\* the latest callback read Enter on a line that tok_line parses
Submitted == pre.key = NL /\ SubmittedTokens.rv = 0

\* ... and the first token of the line begins with '/'
SlashSubmitted ==
  /\ Submitted
  /\ SubmittedTokens.ac > 0
  /\ SubmittedTokens.av[1] # <<>>
  /\ SubmittedTokens.av[1][1] = "/"

SubmittedName == Tail(SubmittedTokens.av[1])

\* the latest callback read Tab: the tokens of the line and the cursor's place
TabTokens == tok_line(pre.tok, pre.line, pre.cursor, pre.wmax, pre.mem)

Completed == pre.key = TAB /\ TabTokens.rv = 0

\* C1: a submitted line whose first token is '/' and the name of a
\* registered command invokes the handler of that command exactly once, with
\* the remaining tokens in their order as arguments, and no other handler.
C1_DispatchInvokesHandlerOnce ==
  (SlashSubmitted /\ Registered(SubmittedName)) =>
    /\ Len(invoked) = 1
    /\ commands[invoked[1].cmd].name = SubmittedName
    /\ invoked[1].func = commands[invoked[1].cmd].func
    /\ invoked[1].args = SubSeq(SubmittedTokens.av, 2, SubmittedTokens.ac)

\* "/help quit h" was submitted: the handler of help got <<quit, h>>
C1_Witness ==
  /\ SlashSubmitted
  /\ SubmittedName = n_help
  /\ Len(invoked) = 1
  /\ invoked[1].func = "ev_prompt_print_help"
  /\ invoked[1].args = <<n_quit, <<"h">>>>

\* the callback that reads Enter, and the tokens of the line it finds
EnterRead == ready # <<>> /\ Head(ready) = NL /\ ready' = Tail(ready)

\* on_stdin_ready reads Enter and the tokenizer gets the memory it asks for
EnterStep == EnterRead /\ pre'.mem = "ok"

Typed == tok_line(tok, Append(line, NL), cursor, wmax, pre'.mem)

UnknownTyped ==
  /\ Typed.rv = 0
  /\ Typed.ac > 0
  /\ Typed.av[1] # <<>>
  /\ Typed.av[1][1] = "/"
  /\ ~Registered(Tail(Typed.av[1]))

\* C2: dispatching a line whose first token is '/' and a name that is not in
\* the registry prints the unknown-command message and does nothing else: no
\* handler is invoked, the use count, the client and the pushers stay.
C2_UnknownCommandOnlyReported ==
  [][(EnterStep /\ UnknownTyped) =>
       /\ term' = <<<<"\nUnknown command '%s'\n", Tail(Typed.av[1])>>>>
       /\ invoked' = <<>>
       /\ holds' = holds
       /\ status' = status
       /\ client' = client
       /\ pushers' = pushers]_vars

\* "/bogus h" was submitted
C2_Witness ==
  /\ SlashSubmitted
  /\ SubmittedName = bogus
  /\ SubmittedTokens.ac = 2
  /\ invoked = <<>>
  /\ term = <<<<"\nUnknown command '%s'\n", bogus>>>>

\* C3: the lookup is an exact, case-sensitive match of the whole name: a
\* handler runs only if the first token without its '/' equals the name of
\* its command; a prefix of a name, a name with more characters or a name
\* in another case runs no handler.
C3_LookupIsExact ==
  Submitted =>
    /\ \A k \in 1..Len(invoked) :
         SlashSubmitted /\ commands[invoked[k].cmd].name = SubmittedName
    /\ (SlashSubmitted /\ ~Registered(SubmittedName)) => invoked = <<>>

\* "/Help" was submitted and no handler ran
C3_Witness ==
  /\ SlashSubmitted
  /\ SubmittedName = <<"H", "e", "l", "p">>
  /\ invoked = <<>>

\* C4: what a handler returned is rendered in exactly one way: output that
\* is not empty is printed; empty output prints nothing; no output and an
\* error prints "Command failed: <message>"; no output and no error prints
\* the internal-error message.
C4_OneRenderingPerOutcome ==
  (pre.key = NL /\ Len(invoked) = 1 /\ status # "aborted") =>
    LET h == invoked[1]
    IN term = IF ~h.out.null /\ Len(h.out.v) > 0 THEN <<<<"\n%s\n", h.out.v>>>>
              ELSE IF ~h.out.null THEN <<>>
              ELSE IF h.err # NULL
                THEN <<<<"ESC[31m">>, <<"Command failed: %s\n", h.err>>,
                       <<"ESC[39m">>>>
              ELSE <<<<"ESC[31m">>,
                     <<"Internal error - Command failed to set error\n">>,
                     <<"ESC[39m">>>>

\* a handler returned neither output nor an error
C4_Witness ==
  /\ pre.key = NL
  /\ Len(invoked) = 1
  /\ invoked[1].out.null
  /\ invoked[1].err = NULL
  /\ status = "running"
  /\ Len(term) = 3
  /\ term[2] = <<"Internal error - Command failed to set error\n">>

\* C5: after any completed line, whatever its command did, the handler has
\* been invoked at most once, the editing state is reset and the session
\* goes on; the session ends only once ev_quit released the application.
C5_NeverAbortsOnCommandFailure ==
  Submitted =>
    /\ Len(invoked) <= 1
    /\ status \in {"running", "stopped"}
    /\ resets = 1
    /\ line = <<>>
    /\ cursor = 0
    /\ tok = tok_reset
    /\ (status = "stopped" => holds = 0)

\* the cursor is in the first token, after its '/', and no later token exists
InCommandName ==
  /\ Completed
  /\ TabTokens.ac = 1
  /\ TabTokens.cc = 0
  /\ TabTokens.co >= 1
  /\ TabTokens.av[1][1] = "/"

\* the text after the '/' up to the cursor
TypedPrefix == SubSeq(TabTokens.av[1], 2, TabTokens.co)

\* C6: with the cursor in the first token and no later token, completing
\* the prefix p typed after '/' yields exactly the registered commands whose
\* names start with p, each once and as '/' + name; the empty prefix yields
\* every command.
C6_CommandNameCompletion ==
  InCommandName =>
    /\ Len(completions) = 1
    /\ ~completions[1].null
    /\ called = <<>>
    /\ LET c == completions[1].v
           want == {i \in 1..Len(commands) :
                      IsPrefix(TypedPrefix, commands[i].name)}
       IN /\ {c[k] : k \in 1..Len(c)} = {<<"/">> \o commands[i].name : i \in want}
          /\ Len(c) = Cardinality(want)
          /\ TypedPrefix = <<>> => Len(c) = Len(commands)

\* Tab after "/h": /help and /history of the three commands
C6_Witness ==
  /\ InCommandName
  /\ TypedPrefix = <<"h">>
  /\ completions = <<Val(<<<<"/">> \o n_help, <<"/">> \o n_history>>)>>

\* the cursor is in an argument of a line whose first token is '/' and the
\* name of a registered command
InArgument ==
  /\ Completed
  /\ TabTokens.cc >= 1
  /\ TabTokens.av[1] # <<>>
  /\ TabTokens.av[1][1] = "/"
  /\ Registered(Tail(TabTokens.av[1]))

ArgumentCommand ==
  CHOOSE i \in 1..Len(commands) : commands[i].name = Tail(TabTokens.av[1])

\* C7: completing argument i (from 0) of a command invokes at most the
\* completer of options[i], never that of another position, and none when i
\* is out of the range of the options or options[i] has no completer.
C7_OnlyCompleterOfPosition ==
  InArgument =>
    LET i == TabTokens.cc - 1
        o == commands[ArgumentCommand].opts
    IN IF i + 1 <= Len(o) /\ o[i + 1].completer # NULL
         THEN /\ Len(called) <= 1
              /\ \A k \in 1..Len(called) :
                   /\ called[k].completer = o[i + 1].completer
                   /\ called[k].cmd = ArgumentCommand
                   /\ called[k].num = i
         ELSE called = <<>>

\* Tab in the first argument of /room-get-event, which has a second option
C7_Witness ==
  /\ InArgument
  /\ commands[ArgumentCommand].name = n_room_get_event
  /\ TabTokens.cc = 1
  /\ TabTokens.ac = 2
  /\ Len(called) = 1
  /\ called[1].completer = "matrix_command_opt_get_room_completion"
  /\ called[1].num = 0

\* the latest callback read Tab and the completion had exactly one candidate
SingleCandidate ==
  /\ pre.key = TAB
  /\ Len(completions) = 1
  /\ ~completions[1].null
  /\ Len(completions[1].v) = 1

Candidate == completions[1].v[1]

\* the candidate without the part typed up to the cursor
MissingSuffix == SubSeq(Candidate, TabTokens.co + 1, Len(Candidate))

\* C8: single-candidate completion inserts at the cursor exactly the
\* candidate's missing suffix and then one space, whatever the cursor
\* position, and changes no other character of the line.
C8_SingleCandidateInsertsSuffixAndSpace ==
  SingleCandidate =>
    /\ line = SubSeq(pre.line, 1, pre.cursor) \o MissingSuffix \o <<" ">>
              \o SubSeq(pre.line, pre.cursor + 1, Len(pre.line))
    /\ cursor = pre.cursor + Len(MissingSuffix) + 1

\* C9: with the cursor at the end of the line and exactly one candidate,
\* after Tab the token under completion is the whole candidate and one
\* space follows it.
C9_TokenBecomesCandidateAndSpace ==
  (SingleCandidate /\ pre.cursor = Len(pre.line)) =>
    LET T == Tokens(line, cursor)
    IN /\ T.rv = 0
       /\ T.ac = TabTokens.cc + 1
       /\ T.av[TabTokens.cc + 1] = Candidate
       /\ line # <<>>
       /\ line[Len(line)] = " "
       /\ cursor = Len(line)

\* the latest callback read Tab and the completion had several candidates
SeveralCandidates ==
  /\ pre.key = TAB
  /\ Len(completions) = 1
  /\ ~completions[1].null
  /\ Len(completions[1].v) >= 2

\* C10: completion with two or more candidates leaves the line as it is,
\* prints a line break, every candidate once in the order supplied, each
\* followed by a space, and a line break, and asks for a redisplay.
C10_SeveralCandidatesArePrinted ==
  SeveralCandidates =>
    LET c == completions[1].v
    IN /\ line = pre.line
       /\ cursor = pre.cursor
       /\ ret = "CC_REDISPLAY"
       /\ term = [k \in 1..(Len(c) + 2) |->
                    IF k = 1 \/ k = Len(c) + 2 THEN <<"\n">>
                    ELSE <<"%s ", c[k - 1]>>]

\* Tab in the middle of "/help q": the candidates of the help completer
C10_Witness ==
  /\ SeveralCandidates
  /\ called # <<>>
  /\ pre.cursor < Len(pre.line)
  /\ ret = "CC_REDISPLAY"
  /\ line = pre.line

\* the latest callback read Tab and the completion had no candidate: the
\* completer returned NULL or an empty array
NoCandidate ==
  /\ pre.key = TAB
  /\ Len(completions) = 1
  /\ completions[1].null \/ Len(completions[1].v) = 0

\* C11: with an empty candidate set, or none returned by the completer,
\* completion reports an error to the widget, prints nothing and leaves the
\* line buffer and the cursor as they were.
C11_NoCandidateIsSilentError ==
  NoCandidate =>
    /\ ret = "CC_ERROR"
    /\ term = <<>>
    /\ line = pre.line
    /\ cursor = pre.cursor

\* Tab after "/bogus": complete_command returned an empty array
C11_Witness ==
  /\ NoCandidate
  /\ pre.line = <<"/">> \o bogus
  /\ completions = <<Val(<<>>)>>
  /\ ret = "CC_ERROR"

\* a token without its leading '/'
Stripped(t) == IF t # <<>> /\ t[1] = "/" THEN Tail(t) ELSE t

\* the cursor is past the first token
PastFirstToken == Completed /\ TabTokens.cc >= 1

\* C12: with the cursor past the first token, a first token that without
\* its leading '/' is not the name of a registered command yields no
\* candidates and invokes no completer.
C12_UnresolvedCommandNoCandidates ==
  (PastFirstToken /\ ~Registered(Stripped(TabTokens.av[1]))) =>
    /\ called = <<>>
    /\ completions = <<>>
    /\ term = <<>>
    /\ line = pre.line

\* the buffer el_gets returns for the line submitted in this step
TypedBuf == Append(line, NL)

\* C13: the history never holds more than the capacity of 100 entries, and
\* an entry recorded into a full history takes the place of the oldest one.
C13_HistoryBounded ==
  [][/\ Len(hist) <= HistSize
     /\ Len(hist') <= HistSize
     /\ (EnterStep /\ hist' # hist /\ Len(hist) = HistSize) =>
          /\ hist'[1].str = TypedBuf
          /\ [i \in 1..(HistSize - 1) |-> hist'[i + 1]]
               = SubSeq(hist, 1, HistSize - 1)]_vars

\* a line was recorded into the full history of 100 entries loaded at the
\* start: the oldest entry, #00, is gone
C13_Witness ==
  /\ pre.key = NL
  /\ Len(hist) = HistSize
  /\ eventid = HistSize + 1
  /\ hist[1].str = Append(pre.line, NL)
  /\ hist[HistSize].str = OldEntry(1)

\* C14: recording a line that the history already holds, at any place,
\* leaves the number of entries and makes the line the most recent entry.
C14_HistoryEntriesUnique ==
  [][(/\ EnterStep
      /\ Typed.rv = 0
      /\ Len(line) > 1
      /\ line[1] = "/"
      /\ \E i \in 1..Len(hist) : hist[i].str = TypedBuf) =>
       /\ Len(hist') = Len(hist)
       /\ hist'[1].str = TypedBuf]_vars

\* C15: a submitted line that is empty or one character long is never
\* recorded in the history.
C15_ShortLinesNotRecorded ==
  [][(EnterStep /\ Len(line) <= 1) => hist' = hist]_vars

\* C16: a submitted line of more than one character that begins with '/'
\* is recorded in the history, whether its command succeeds, fails or is
\* unknown: it is the most recent entry afterwards.
C16_CommandLinesRecorded ==
  [][(EnterStep /\ Len(line) > 1 /\ line[1] = "/") =>
       /\ hist' # <<>>
       /\ hist'[1].str = TypedBuf]_vars

\* a command that failed with an error is the most recent entry
C16_Witness ==
  /\ pre.key = NL
  /\ Len(pre.line) > 1
  /\ pre.line[1] = "/"
  /\ Len(invoked) = 1
  /\ invoked[1].out.null
  /\ invoked[1].err # NULL
  /\ hist # <<>>
  /\ hist[1].str = Append(pre.line, NL)

\* the first token of the line typed does not begin with '/'
NoMarkerTyped ==
  /\ Typed.rv = 0
  /\ Typed.ac = 0 \/ Typed.av[1] = <<>> \/ Typed.av[1][1] # "/"

\* C17: a submitted line that does not begin with '/' is not dispatched and
\* not recorded in the history, and the editing state is reset.
C17_PlainLinesLeaveNoTrace ==
  [][(EnterStep /\ NoMarkerTyped) =>
       /\ invoked' = <<>>
       /\ term' = <<>>
       /\ hist' = hist
       /\ line' = <<>>
       /\ cursor' = 0
       /\ resets' = 1]_vars

\* C18: submitting the empty line invokes no handler, prints nothing, leaves
\* the history, and resets the editing state.
C18_EmptyLineOnlyResets ==
  [][(EnterStep /\ line = <<>>) =>
       /\ invoked' = <<>>
       /\ term' = <<>>
       /\ hist' = hist
       /\ eventid' = eventid
       /\ line' = <<>>
       /\ cursor' = 0
       /\ tok' = tok_reset
       /\ resets' = 1
       /\ status' = status
       /\ holds' = holds]_vars

\* the empty line was submitted after a line that was recorded
C18_Witness ==
  /\ pre.key = NL
  /\ pre.line = <<>>
  /\ hist # <<>>
  /\ eventid = 1
  /\ invoked = <<>>
  /\ term = <<>>
  /\ resets = 1
  /\ status = "running"

\* the strings of the store h, from the newest to the oldest
Strings(h) == [i \in 1..Len(h) |-> h[i].str]

\* the step from a stopped session to the next start
StartStep == status = "stopped" /\ status' = "running"

\* C19: the history saved at shutdown and loaded at the next start is the
\* same entries in the same order, and saving again what was loaded, with
\* nothing new entered, writes the same file.
C19_SaveLoadRoundTrip ==
  [][StartStep =>
       /\ loaded'
       /\ Strings(hist') = Strings(hist)
       /\ history_save(hist') = histfile]_vars

\* a session started again on the file its last shutdown wrote, with
\* several entries
C19_Witness ==
  /\ status = "running"
  /\ loaded
  /\ resets = 0
  /\ histfile \notin HistoryFiles
  /\ Len(hist) >= 2
  /\ hist[1].str # hist[2].str
  /\ histfile = history_save(hist)

\* no key has been read since the session started
NothingRead == pre.key = NUL

\* C20: a session started without a history file attempts no load, starts
\* with an empty history, and is initialised as any other: it runs, with
\* an empty line and a reset tokenizer, until something stops it.
C20_NoHistoryFileStartsEmpty ==
  histfile.null =>
    /\ ~loaded
    /\ NothingRead =>
         /\ hist = <<>>
         /\ eventid = 0
         /\ line = <<>>
         /\ cursor = 0
         /\ tok = tok_reset
         /\ status = "running" \/ signals # Signals \/ opened

\* the session started without a history file and waits for its first key
C20_Witness ==
  /\ histfile.null
  /\ ~loaded
  /\ NothingRead
  /\ hist = <<>>
  /\ status = "running"
  /\ holds = 1
  /\ ready # <<>>
  /\ Head(ready) = "h"

\* the last line submitted ran the handler func
Ran(func) == Len(invoked) = 1 /\ invoked[1].func = func

\* the line of the listing for the entry e
Listed(e) == <<"%4d %s", e.num, e.str>>

\* C21: the listing of /history holds every stored entry exactly once with
\* its number, the most recent entry first.
C21_HistoryListedNewestFirst ==
  Ran("ev_prompt_print_history") =>
    /\ ~invoked[1].out.null
    /\ invoked[1].out.v = [i \in 1..Len(hist) |-> Listed(hist[i])]

\* on_stdin_ready reads the Tab key
TabStep == ready # <<>> /\ Head(ready) = TAB /\ ready' = Tail(ready)

\* what tok_line returns to complete() and to on_stdin_ready in this state
TabParse == tok_line(tok, line, cursor, wmax, pre'.mem)
EnterParse == tok_line(tok, TypedBuf, cursor, wmax, pre'.mem)

\* C22: when tok_line returns an error result (a failure of the tokenizer
\* or an unterminated quote), Tab invokes no completer and leaves the line,
\* Enter invokes no handler and records nothing, and the session goes on.
C22_ParseErrorAbortsAttempt ==
  [][/\ (TabStep /\ TabParse.rv # 0) =>
          /\ completions' = <<>>
          /\ called' = <<>>
          /\ line' = line
          /\ cursor' = cursor
          /\ status' = "running"
     /\ (EnterRead /\ EnterParse.rv # 0) =>
          /\ invoked' = <<>>
          /\ hist' = hist
          /\ status' = "running"]_vars

\* C23: every tokenization starts from a clean tokenizer: whenever a Tab
\* or a finished line is about to be parsed the tokenizer is in its reset
\* state, and every completion attempt and every submitted line, also one
\* whose parse failed, leaves it reset if the session goes on.
C23_TokenizerAlwaysClean ==
  [][(TabStep \/ EnterRead) =>
       /\ tok = tok_reset
       /\ status' = "running" => tok' = tok_reset]_vars

\* on_stdin_ready reads a key that does not end the line
ReadingStep ==
  ready # <<>> /\ Head(ready) \in Keys \ {NL} /\ ready' = Tail(ready)

\* C24: while the line does not end in a newline a callback dispatches
\* nothing, records nothing, resets nothing and leaves the session waiting;
\* the callback that reads the newline resets the widget exactly once,
\* after the dispatch, and the session waits for the next line.
C24_ResetOnlyWhenLineReady ==
  [][/\ ReadingStep =>
          /\ invoked' = <<>>
          /\ hist' = hist
          /\ eventid' = eventid
          /\ resets' = 0
          /\ status' = "running"
     /\ EnterRead =>
          /\ resets' = 1
          /\ line' = <<>>
          /\ cursor' = 0
          /\ tok' = tok_reset
          /\ status' = "running"]_vars

\* on_stdin_ready reads a key
KeyStep == ready # <<>> /\ Head(ready) \in Keys /\ ready' = Tail(ready)

\* the line typed is the command /quit, with or without arguments
QuitTyped == Typed.rv = 0 /\ Typed.ac >= 1 /\ Typed.av[1] = Cmd(n_quit)

\* C25: the line /quit invokes ev_prompt_quit, which releases the
\* application's hold once and returns an empty buffer without an error;
\* after it no key is read from standard input any more.
C25_QuitEndsTheSession ==
  [][/\ (EnterStep /\ QuitTyped) =>
          /\ Len(invoked') = 1
          /\ invoked'[1].func = "ev_prompt_quit"
          /\ invoked'[1].out = Val(<<>>)
          /\ invoked'[1].err = NULL
          /\ term' = <<>>
          /\ holds' = IF holds > 0 THEN holds - 1 ELSE 0
          /\ holds' = 0
     /\ Ran("ev_prompt_quit") => ~KeyStep]_vars

\* /quit has run and the keys typed after it are never read
C25_Witness ==
  /\ Ran("ev_prompt_quit")
  /\ status = "stopped"
  /\ holds = 0
  /\ ready # <<>>
  /\ Head(ready) \in Keys
  /\ hist # <<>>
  /\ hist[1].str = Append(Cmd(n_quit), NL)

\* C26: the keys are handled in the order they arrive, one callback at a
\* time: no key is read before the line submitted before it has been
\* handled to its end (dispatched and the widget reset), and every line
\* recorded goes on top of the lines recorded before it, which keep their
\* order, with the next number.
C26_LinesInArrivalOrder ==
  [][/\ ready' # ready => ready' = Tail(ready)
     /\ (KeyStep /\ pre.key = NL) =>
          /\ resets = 1
          /\ line = <<>>
          /\ cursor = 0
          /\ tok = tok_reset
     /\ \A i \in 1..(Len(hist) - 1) : hist[i].num > hist[i + 1].num
     /\ (EnterStep /\ hist' # hist) =>
          /\ hist'[1] = [num |-> eventid + 1, str |-> TypedBuf]
          /\ eventid' = eventid + 1
          /\ \A i \in 2..Len(hist') : hist'[i] = hist[i - 1]]_vars

\* two lines were submitted and handled one after the other, and another
\* event waits
C26_Witness ==
  /\ pre.key = NL
  /\ pre.line = Cmd(n_help)
  /\ Ran("ev_prompt_print_help")
  /\ resets = 1
  /\ Len(hist) = 2
  /\ hist[1] = [num |-> 2, str |-> Append(Cmd(n_help), NL)]
  /\ hist[2] = [num |-> 1, str |-> <<"h", "i", NL>>]
  /\ ~loaded
  /\ ready # <<>>

\* on_signal runs for SIGTERM or SIGINT
SignalStep == ready # <<>> /\ Head(ready) \in Signals /\ ready' = Tail(ready)

\* a signal has asked the session to stop
StopRequested == signals # Signals /\ status = "running"

\* C27: a signal cancels no command: on_signal leaves the line, the
\* history and the output alone, a line read after the request is still
\* handled to its end, and after the request the loop exits and the history
\* is saved.
C27_SignalStopsBetweenCallbacks ==
  /\ [][SignalStep =>
          /\ holds' = 0
          /\ UNCHANGED <<line, cursor, tok, hist, eventid, invoked, term,
                         resets, status, pushers>>]_vars
  /\ [][(EnterRead /\ StopRequested) => resets' = 1 /\ line' = <<>>]_vars
  /\ StopRequested ~> (status = "stopped" /\ histfile = history_save(hist))

\* no two commands of the registry have the same name
DistinctNames(cmds) ==
  \A i, j \in 1..Len(cmds) : cmds[i].name = cmds[j].name => i = j

ClientCommands ==
  {n_room_details, n_room_events, n_room_load_past_events, n_room_get_event,
   n_get_pushers, n_remove_pusher}

\* the line typed is one of these commands, and it is registered
ClientCommandTyped ==
  /\ Typed.rv = 0
  /\ Typed.ac >= 1
  /\ Typed.av[1] \in {Cmd(n) : n \in ClientCommands}
  /\ Registered(Tail(Typed.av[1]))

\* C29: whatever the state of the login, a matrix command that needs the
\* client returns a buffer or a failure to run_command and the session
\* goes on: no assertion ends the process.
C29_MatrixCommandsNeverAbort ==
  [][(EnterStep /\ ClientCommandTyped) =>
       /\ status' = "running"
       /\ Len(invoked') = 1
       /\ ~invoked'[1].out.null \/ invoked'[1].err # NULL
       /\ resets' = 1]_vars

\* C30: whatever the order of /quit lines, SIGINT, SIGTERM and the fatal
\* errors of the matrix library, the hold taken at activation is released
\* at most once: g_application_release is never called on a use count
\* that is already zero.
C30_HoldReleasedAtMostOnce ==
  releases <= 1

\* the first token of the line completed begins with the marker '/'
MarkerFirst == TabTokens.av[1] # <<>> /\ TabTokens.av[1][1] = "/"

\* C31: with the cursor past a first token that does not begin with '/',
\* completion resolves no command and invokes no completer.
C31_NoMarkerNoCompleter ==
  (PastFirstToken /\ ~MarkerFirst) =>
    /\ called = <<>>
    /\ completions = <<>>

\* C32: a line is recorded before its handler runs: the listing that
\* /history prints holds the line being executed, and no entry listed is
\* more recent than it.
C32_ListingHoldsItsOwnLine ==
  (pre.key = NL /\ Ran("ev_prompt_print_history")) =>
    /\ hist # <<>>
    /\ hist[1].str = Append(pre.line, NL)
    /\ ~invoked[1].out.null
    /\ \E i \in 1..Len(invoked[1].out.v) : invoked[1].out.v[i] = Listed(hist[1])
    /\ \A i \in 1..Len(invoked[1].out.v) : invoked[1].out.v[i][2] <= hist[1].num

\* /history was submitted after another line was recorded, and the listing
\* ends with the /history line itself
C32_Witness ==
  /\ pre.key = NL
  /\ pre.line = Cmd(n_history)
  /\ Ran("ev_prompt_print_history")
  /\ Len(hist) = 2
  /\ hist[2].str # hist[1].str
  /\ Len(invoked[1].out.v) = 2
  /\ invoked[1].out.v[2] = <<"%4d %s", 2, Append(Cmd(n_history), NL)>>

\* the line typed is /get-pushers or /remove-pusher, and it is registered
GetPushersTyped ==
  /\ Typed.rv = 0
  /\ Typed.ac >= 1
  /\ Typed.av[1] = Cmd(n_get_pushers)
  /\ Registered(n_get_pushers)

RemovePusherTyped ==
  /\ Typed.rv = 0
  /\ Typed.ac >= 1
  /\ Typed.av[1] = Cmd(n_remove_pusher)
  /\ Registered(n_remove_pusher)

\* the id given to /remove-pusher is the decimal number of one of the
\* pushers that the latest /get-pushers returned
IdInRange ==
  /\ Typed.ac >= 2
  /\ \E k \in 0..(pushers - 1) : Typed.av[2] = <<Digits[k + 1]>>

\* the handler got as far as cm_client_remove_pusher_sync
AskedToRemove(h) ==
  ~h.out.null \/ h.err = "Failed to remove pusher: %s"

\* C33: pushers is what the latest /get-pushers of the session returned
\* (NULL after a failure and at the start); /remove-pusher asks the server
\* only with such an array and the decimal id of one of its pushers, and
\* otherwise fails with an error; it never changes the array.
C33_RemoveOnlyListedPusher ==
  [][/\ (EnterStep /\ GetPushersTyped /\ status' = "running") =>
          /\ Len(invoked') = 1
          /\ pushers' = IF invoked'[1].out.null THEN -1
                        ELSE IF invoked'[1].err # NULL THEN -1
                        ELSE IF invoked'[1].out.v[1][1] = "Pusher Id"
                          THEN Len(invoked'[1].out.v)
                        ELSE 0
     /\ (pushers' # pushers /\ status' = "running" /\ status = "running") =>
          (EnterStep /\ GetPushersTyped)
     /\ (status' = "running" /\ status # "running") => pushers' = -1
     /\ (EnterStep /\ RemovePusherTyped) =>
          /\ status' = "running"
          /\ Len(invoked') = 1
          /\ pushers' = pushers
          /\ AskedToRemove(invoked'[1]) => IdInRange
          /\ ~IdInRange => invoked'[1].out.null /\ invoked'[1].err # NULL]_vars

\* C34: when the completion has one candidate, the offset of the cursor in
\* its token is at most the length of the candidate, so the suffix
\* inserted is read inside the candidate.
C34_OffsetInsideCandidate ==
  (SingleCandidate /\ Completed) => TabTokens.co <= Len(Candidate)

\* Tab after "/room-details " with one room joined: the offset is 0 and the
\* whole room id is inserted
C34_Witness ==
  /\ SingleCandidate
  /\ Completed
  /\ TabTokens.co = 0
  /\ Candidate = room_a
  /\ Len(called) = 1
  /\ called[1].completer = "matrix_command_opt_get_room_completion"
  /\ line = pre.line \o room_a \o Sp

\* C35: whatever calls are made on a format builder, its keys and its
\* values are equally many, so the assertion of ev_format_builder_end
\* holds and every entry is formatted; ev_format_builder_add_nonnull with
\* the value NULL leaves both arrays as they are.
C35_KeysAndValuesPaired ==
  /\ [](Len(builder.keys) = Len(builder.values))
  /\ [](~built.failed)
  /\ [](~built.out.null => Len(built.out.v) = Len(builder.keys))
  /\ [][(built'.call # <<>> /\ built'.call[1] = "add_nonnull"
         /\ built'.call[3].null)
        => builder' = builder]_vars

\* a builder with the indent 4 was given one key with the value NULL, and
\* ev_format_builder_end has formatted the entry
C35_Witness ==
  /\ built.call = <<"end", Null, Null>>
  /\ builder.indent = INFO_INDENT
  /\ builder.keys = <<Val(<<"k", "e", "y">>)>>
  /\ builder.values = <<Null>>
  /\ built.out = Val(<<<<" ", " ", " ", " ", "k", "e", "y", " ", ":", " ", NL>>>>)

====
